---------------------------- MODULE Spec2Model ----------------------------
(***************************************************************************)
(* Model of the domestic-ai supervisor: src/init.py (the asyncio main      *)
(* task, the signal handlers and shutdown()) and src/init_functions.py     *)
(* (the services list, ensure_service_running, Startup.start and the stop  *)
(* functions).                                                             *)
(*                                                                         *)
(* The program runs on one asyncio event loop.  Control changes hands only *)
(* where a coroutine really suspends: the HTTP GET of a probe and          *)
(* asyncio.sleep.  Every action below is the code that runs from one       *)
(* suspension point to the next; the blocking calls (process.wait, psutil  *)
(* scans, Popen) lie inside an action.  The states of the model are the    *)
(* states in which every coroutine is suspended.                           *)
(*                                                                         *)
(* Python semantics used (Python >= 3.8):                                  *)
(*  - stop_service assigns bot_process (init_functions.py:301) without a   *)
(*    global declaration, so the name is local to the function and the     *)
(*    read at line 265 raises UnboundLocalError whenever the service is    *)
(*    the Bot;                                                             *)
(*  - asyncio.CancelledError is not an Exception, so a cancelled           *)
(*    shutdown() skips its except block and runs only its finally block;   *)
(*  - Popen(['bash', path]) starts a bash process whether or not the path  *)
(*    exists; a failing fork is not modelled;                              *)
(*  - the event loop runs ready callbacks in FIFO order, so the shutdown() *)
(*    tasks created by the signal handler start in the order of creation.  *)
(***************************************************************************)
EXTENDS Integers, Sequences, FiniteSets, TLC

(* Bounds of the model *)
MaxSignals == 2      \* termination requests delivered in one run
MaxPolls == 2        \* polls that fit in startup_timeout (60 s / 2 s sleeps)

(* init_functions.py:187 *)
max_attempts == 5

(* init_functions.py:159-185 *)
services == <<"API", "Bot", "Rembg Tool", "Image Generation Tool">>

(* init_functions.py:406 (start_tools) and :388 (stop_tools) *)
tool_services == SelectSeq(services, LAMBDA s : s # "API")

(* init.py:25-55: wait_for_api, then start_tools, then start_bot *)
StartupOrder == <<"API">> \o tool_services \o <<"Bot">>

NSteps == Len(StartupOrder)

VARIABLES
    mpc,                  \* where the main task is suspended
    cur,                  \* index in StartupOrder of the running ensure_service_running
    attempt,              \* loop counter of the probe loop / poll loop
    inv,                  \* what the running ensure_service_running has done so far
    last,                 \* the returns of ensure_service_running in main's latest step
    ret,                  \* result of each ensure_service_running call so far
    procs,                \* processes spawned by Startup.start, in spawn order
    bot_process,          \* init_functions.bot_process: 0 (None) or an index in procs
    touched,              \* services that were probed, port-stopped or launched
    shutdown_in_progress, \* init.shutdown_in_progress
    tpc,                  \* where each signal-created shutdown task is
    invoked,              \* shutdown() invocations that have run their guard
    teardown,             \* shutdown() invocations that passed the guard
    writes,               \* number of times the signal file was written
    signal_file,          \* bot_shutdown.signal exists
    sweeps,               \* number of forceful_kill_processes runs
    passes,               \* verify_shutdown's list `running`, one entry per pass
    termed,               \* processes shutdown() asked to terminate (SIGTERM)
    killed,               \* processes shutdown() killed (SIGKILL)
    stops,                \* the calls of stop_service made by stop_all_services
    exited                \* "no", or how the supervisor process ended

mainVars == <<mpc, cur, attempt, inv, last, ret, procs, bot_process, touched>>
sdVars == <<shutdown_in_progress, invoked, teardown, writes, signal_file, sweeps,
            passes, termed, killed, stops, exited>>
vars == <<mpc, cur, attempt, inv, last, ret, procs, bot_process, touched,
          shutdown_in_progress, tpc, invoked, teardown, writes, signal_file,
          sweeps, passes, termed, killed, stops, exited>>

(* verify_shutdown's list `running` (init.py:135) as its latest pass left it *)
running == IF passes = <<>> THEN {} ELSE passes[Len(passes)]

Tasks == 1..MaxSignals

(* The shutdown() invocations: main's two calls (init.py:266 and :284) and *)
(* the task created by the t-th signal (init.py:249)                       *)
MainFail == <<"main", 1>>
MainFinally == <<"main", 2>>
SigTask(t) == <<"task", t>>

(* Outcomes of one HTTP GET, init_functions.py:39-43 and :206-211 *)
ProbeOutcomes == {"200", "other_status", "client_error", "timeout", "other_exception"}

(* init_functions.py:37-43: the value is_running returns, when it returns *)
is_running(outcome) == outcome = "200"

(* init_functions.py:42: the except clause names aiohttp.ClientError and   *)
(* asyncio.TimeoutError only; any other exception leaves is_running        *)
is_running_raises(outcome) == outcome = "other_exception"

IsBot(p) == StartupOrder[p] = "Bot"

(* What find_process_by_port returns (init_functions.py:244-259): None, a *)
(* process that this supervisor did not spawn, or the index in procs of   *)
(* one that it did                                                        *)
NoHolder == 0
Foreign == -1

(* holder, stopError: the process found on the port and whether stopping  *)
(* it raised (:231); order: the port stop and the launch, as they happen  *)
ZeroInv == [probes |-> 0, failed |-> 0, delays |-> 0, launched |-> FALSE,
            portStopped |-> FALSE, holder |-> NoHolder, stopError |-> FALSE,
            order |-> <<>>]

Alive(P) == {i \in DOMAIN P : P[i].alive}

Dead(p) == [p EXCEPT !.alive = FALSE]

(* proc.kill() / os.killpg(..., SIGKILL) on the processes S *)
Kill(P, S) == [i \in DOMAIN P |-> IF i \in S THEN Dead(P[i]) ELSE P[i]]


(***************************************************************************)
(* The main task.  Its state is gathered in a record so that the code that *)
(* runs between two suspension points can be written as a function.  Every *)
(* step of main starts with an empty `last` and appends to it the returns  *)
(* of ensure_service_running that the step makes.                          *)
(***************************************************************************)
Main == [mpc |-> mpc, cur |-> cur, attempt |-> attempt, inv |-> inv, last |-> <<>>,
         ret |-> ret, procs |-> procs, bot_process |-> bot_process,
         touched |-> touched]

SetMain(m) ==
    /\ mpc' = m.mpc
    /\ cur' = m.cur
    /\ attempt' = m.attempt
    /\ inv' = m.inv
    /\ last' = m.last
    /\ ret' = m.ret
    /\ procs' = m.procs
    /\ bot_process' = m.bot_process
    /\ touched' = m.touched

(* What Startup.start tests of command_path before it calls Popen: only    *)
(* that the attribute is set (init_functions.py:48-50), which it is for    *)
(* every entry of `services`.  Whether the file exists or can be executed  *)
(* is not looked at, and bash is started in either case.                   *)
PathChecks == {"configured"}

(* init_functions.py:58-61 and :74-77: Popen(['bash', command_path],       *)
(* start_new_session=True).  Only the Bot branch keeps the Popen object.   *)
(* checks: what was tested of the path before this Popen.                  *)
Spawn(m, svc) ==
    LET P == Append(m.procs, [svc |-> svc, alive |-> TRUE, checks |-> PathChecks])
    IN [m EXCEPT !.procs = P,
                 !.bot_process = IF svc = "Bot" THEN Len(P) ELSE @,
                 !.inv.launched = TRUE,
                 !.inv.order = Append(@, "launch"),
                 !.touched = @ \cup {svc}]

BotAlreadyRunning_Ignored(m) == FALSE

(* init_functions.py:194: bot_process is not None and bot_process.poll() is None *)
BotAlreadyRunning(m) == m.bot_process # 0 /\ m.procs[m.bot_process].alive

AbortsStartup_Never(p, res) == FALSE

AbortsStartup_AnyFailure(p, res) == ~res

AbortsStartup_BotFailure(p, res) == p \in {1, NSteps} /\ ~res

(* Whether initialize_services returns False when the p-th call of          *)
(* ensure_service_running returned res: only the API's result aborts         *)
(* (init.py:31-35); the result of start_tools only chooses a log line        *)
(* (:41-47, init_functions.py:240-242) and that of start_bot is dropped (:51) *)
AbortsStartup(p, res) == p = 1 /\ ~res

RECURSIVE Begin(_, _), Return(_, _, _)

(* ensure_service_running(StartupOrder[p]) from its call to its first      *)
(* suspension (init_functions.py:187-205, :45-62); p > NSteps: the rest of *)
(* initialize_services and main up to done.wait() (init.py:54-55, :270-273)*)
Begin(m, p) ==
    IF p > NSteps
    THEN [m EXCEPT !.mpc = "waiting"]
    ELSE LET m0 == [m EXCEPT !.cur = p, !.attempt = 0, !.inv = ZeroInv]
         IN IF IsBot(p)
            THEN IF BotAlreadyRunning(m0)
                 THEN Return(m0, TRUE, "bot_running")
                 ELSE [Spawn(m0, "Bot") EXCEPT !.mpc = "settle"]
            ELSE [m0 EXCEPT !.mpc = "probe", !.touched = @ \cup {StartupOrder[p]}]

(* ensure_service_running returns res to wait_for_api / ensure_services_running / *)
(* start_bot, and the caller goes on (init.py:31-51, init_functions.py:240-242)  *)
(* via: the return statement taken, "probe" (:209), "poll" (:87), "timeout"      *)
(* (:92), "exception" (:95), "bot_running" (:196) or "settle" (:67, :70)         *)
Return(m, res, via) ==
    LET m1 == [m EXCEPT !.last = Append(@, [pos |-> m.cur, res |-> res, via |-> via,
                                            probes |-> m.inv.probes,
                                            failed |-> m.inv.failed,
                                            delays |-> m.inv.delays,
                                            launched |-> m.inv.launched,
                                            portStopped |-> m.inv.portStopped,
                                            holder |-> m.inv.holder,
                                            stopError |-> m.inv.stopError,
                                            order |-> m.inv.order]),
                        !.ret[m.cur] = IF res THEN "ok" ELSE "fail"]
    IN IF AbortsStartup(m.cur, res)
       THEN [m1 EXCEPT !.mpc = "init_failed"]
       ELSE Begin(m1, m.cur + 1)

PortHolders_AnyPort(m, svc) == {NoHolder, Foreign} \cup Alive(m.procs)

(* The processes find_process_by_port(service.port) can return at :222: none, *)
(* a process from outside, or a process of this run that listens on the port. *)
(* A launch script serves the port its own entry of `services` declares       *)
(* (:159-185), so of the spawned processes only those of the service itself   *)
(* can hold its port.                                                         *)
PortHolders(m, svc) ==
    {NoHolder, Foreign} \cup {i \in Alive(m.procs) : m.procs[i].svc = svc}

(* init_functions.py:221-232: terminate, wait(timeout=5), kill; err: one of   *)
(* them raised, which :231 catches and logs                                   *)
StopPortHolder(m, holder, err) ==
    IF holder = NoHolder
    THEN m
    ELSE [m EXCEPT !.inv.portStopped = TRUE, !.inv.holder = holder,
                   !.inv.stopError = err,
                   !.inv.order = Append(@, "port_stop"),
                   !.procs = IF holder \in DOMAIN @ /\ ~err
                             THEN Kill(@, {holder}) ELSE @]

Launch_UnlessStopFailed(m) ==
    IF m.inv.stopError
    THEN Return(m, FALSE, "exception")
    ELSE [Spawn(m, StartupOrder[m.cur]) EXCEPT !.mpc = "poll", !.attempt = 0]

(* :235 and Startup.start for an HTTP service up to its first poll (:48-85) *)
Launch(m) ==
    [Spawn(m, StartupOrder[m.cur]) EXCEPT !.mpc = "poll", !.attempt = 0]

ProbeDone_StopsPortEarly(m, outcome, holder, err) ==
    LET m0 == [m EXCEPT !.inv.probes = @ + 1]
    IN IF ~is_running_raises(outcome) /\ is_running(outcome)
       THEN Return(m0, TRUE, "probe")
       ELSE LET m1 == StopPortHolder([m0 EXCEPT !.inv.failed = @ + 1], holder, err)
            IN IF m.attempt < max_attempts - 1
               THEN [m1 EXCEPT !.mpc = "delay"]
               ELSE Launch(m1)

ProbeDone_Propagates(m, outcome, holder, err) ==
    LET m0 == [m EXCEPT !.inv.probes = @ + 1]
    IN IF is_running_raises(outcome)
       THEN Return(m0, FALSE, "exception")
       ELSE IF is_running(outcome)
            THEN Return(m0, TRUE, "probe")
            ELSE IF m.attempt < max_attempts - 1
                 THEN [m0 EXCEPT !.inv.failed = @ + 1, !.mpc = "delay"]
                 ELSE Launch(StopPortHolder([m0 EXCEPT !.inv.failed = @ + 1],
                                            holder, err))

(* One probe of the probe loop has completed (init_functions.py:203-235).  *)
(* An exception out of is_running is caught and logged at :210-211 and the *)
(* loop goes on as after a False.  holder, err: what the port step of      *)
(* :221-232 finds and whether stopping it raises.                          *)
ProbeDone(m, outcome, holder, err) ==
    LET m0 == [m EXCEPT !.inv.probes = @ + 1]
    IN IF ~is_running_raises(outcome) /\ is_running(outcome)
       THEN Return(m0, TRUE, "probe")
       ELSE IF m.attempt < max_attempts - 1
            THEN [m0 EXCEPT !.inv.failed = @ + 1, !.mpc = "delay"]
            ELSE Launch(StopPortHolder([m0 EXCEPT !.inv.failed = @ + 1],
                                       holder, err))

(* asyncio.sleep(2) of the probe loop is over; the next GET is issued (:213-215) *)
DelayDone(m) ==
    [m EXCEPT !.attempt = @ + 1, !.inv.delays = @ + 1, !.mpc = "probe"]

(* One poll of Startup.start's wait loop has completed (:83-89); an exception *)
(* out of is_running ends the launch at :93-95                               *)
PollDone(m, outcome) ==
    IF is_running_raises(outcome)
    THEN Return(m, FALSE, "exception")
    ELSE IF is_running(outcome)
         THEN Return(m, TRUE, "poll")
         ELSE [m EXCEPT !.mpc = "pollsleep"]

(* asyncio.sleep(2) of the wait loop is over; the loop condition is tested (:83, :91-92) *)
PollSleepDone(m, timedOut) ==
    IF timedOut \/ m.attempt + 1 >= MaxPolls
    THEN Return([m EXCEPT !.attempt = @ + 1], FALSE, "timeout")
    ELSE [m EXCEPT !.attempt = @ + 1, !.mpc = "poll"]

SettleDone_AlwaysSucceeds(m) == Return(m, TRUE, "settle")

(* asyncio.sleep(5) after the bot's Popen is over (:62-70) *)
SettleDone(m) ==
    Return(m, m.procs[m.bot_process].alive, "settle")

(***************************************************************************)
(* shutdown() and what it calls                                            *)
(***************************************************************************)

SkipShutdown_Never(flag) == FALSE

(* init.py:169-173: the guard; nothing suspends between the test and the set *)
SkipShutdown(flag) == flag

(* stop_service (init_functions.py:261-365).  For the Bot the read of the     *)
(* unbound local bot_process at :265 raises; for any other service it calls   *)
(* Startup.stop, whose whole body is under `if self.name == "Bot"` (:105), so *)
(* it does nothing and returns None.                                          *)
stop_service(s) == IF s = "Bot" THEN "UnboundLocalError" ELSE "None"

RECURSIVE stop_services(_)

(* stop_services (:367-372): the calls of stop_service it makes, in the order *)
(* of the list, with what each gives; there is no try around the call, so an  *)
(* exception ends the loop                                                    *)
stop_services(svcs) ==
    IF svcs = <<>>
    THEN <<>>
    ELSE LET r == stop_service(Head(svcs))
         IN <<[svc |-> Head(svcs), res |-> r]>>
            \o (IF r = "UnboundLocalError" THEN <<>> ELSE stop_services(Tail(svcs)))

(* stop_services / stop_all_services (:367-378): no try around stop_service *)
stop_all_services ==
    IF \E i \in DOMAIN services : stop_service(services[i]) = "UnboundLocalError"
    THEN "UnboundLocalError"
    ELSE "returned"

(* The results a scan of the process table can give for the spawned        *)
(* processes.  forceful_kill_processes (init.py:66-70), verify_shutdown    *)
(* (:138-143) and the emergency fallback (:224-228) all look for processes *)
(* whose name holds "python" and whose command line holds                  *)
(* DOMESTIC_AI_PATH.  A spawned process is a bash running the launch       *)
(* script; it matches only while the script has exec'ed python, which the  *)
(* supervisor cannot know: a scan finds any subset of the live ones.       *)
PythonUnderPath(P) == SUBSET Alive(P)

(* init.py:57-130, when its scan finds S *)
forceful_kill_processes(P, S) == Kill(P, S)

(* init.py:132-163: the list `running`, when its scan finds S *)
verify_shutdown(P, S) == S \cap Alive(P)

(* init.py:173-182: the flag is set, the signal file is written, then sleep(2) *)
TeardownBegin(id) ==
    /\ shutdown_in_progress' = TRUE
    /\ signal_file' = TRUE
    /\ writes' = writes + 1
    /\ teardown' = teardown \cup {id}
    /\ invoked' = invoked \cup {id}
    /\ UNCHANGED <<sweeps, passes, termed, killed, stops, exited>>

FinallyExit_OneOnError == "os._exit(1)"

(* init.py:236-239: the finally block of shutdown() *)
FinallyExit == "os._exit(0)"

Gone_NoExit(how) ==
    /\ mpc' = IF mpc = "grace" THEN "finished" ELSE mpc
    /\ tpc' = [t \in Tasks |-> IF tpc[t] = "grace" THEN "returned" ELSE tpc[t]]
    /\ UNCHANGED <<exited, attempt, inv, last, cur, ret, bot_process, touched,
                   shutdown_in_progress, invoked, teardown, writes>>

(* The supervisor process ends: its coroutines are gone with it.  What is  *)
(* left is the outside world (procs, the signal file) and, for the record, *)
(* the module globals and the history as they were at that moment.         *)
Gone(how) ==
    /\ exited' = how
    /\ mpc' = "gone"
    /\ attempt' = 0
    /\ inv' = ZeroInv
    /\ last' = <<>>
    /\ tpc' = [t \in Tasks |-> "gone"]
    /\ UNCHANGED <<cur, ret, bot_process, touched, shutdown_in_progress, invoked,
                   teardown, writes>>

(* The processes stop_all_services sends SIGTERM to, when it returns: the   *)
(* tracked bot if it is still running (init_functions.py:278-282); for the  *)
(* API and the tools Startup.stop does nothing (:105)                       *)
Terminated(P, bp) == IF bp # 0 /\ P[bp].alive THEN {bp} ELSE {}

(* init.py:187-239, after asyncio.sleep(2).  stop_all_services raises, so     *)
(* the except block (:215-235) and the finally block (:236-239) follow.  The  *)
(* ELSE branch is lines 191-213, which need stop_all_services to return; it   *)
(* is written without its asyncio.sleep(1), as no run gets there.  S is what  *)
(* the scans of this step find, and K the ones of them that kill() succeeds   *)
(* on (:229-232, :72-87).                                                     *)
TeardownResume ==
    /\ stops' = stop_services(services)
    /\ \E K \in PythonUnderPath(procs) :
          IF stop_all_services = "UnboundLocalError"
          THEN /\ procs' = Kill(procs, K)
               /\ killed' = killed \cup K
               /\ UNCHANGED <<signal_file, sweeps, passes, termed>>
          ELSE \E S \in {X \in PythonUnderPath(procs) : K \subseteq X} :
               LET T == Terminated(procs, bot_process)
                   P0 == Kill(procs, T)
                   S0 == S \ T
                   P1 == forceful_kill_processes(P0, K \ T)
                   v1 == verify_shutdown(P1, S0)
                   P2 == IF v1 # {} THEN forceful_kill_processes(P1, K \ T) ELSE P1
               IN /\ procs' = P2
                  /\ termed' = termed \cup T
                  /\ killed' = killed \cup (K \ T)
                  /\ sweeps' = sweeps + (IF v1 # {} THEN 2 ELSE 1)
                  /\ passes' = IF v1 # {}
                                THEN passes \o <<v1, verify_shutdown(P2, S0)>>
                                ELSE Append(passes, v1)
                  /\ signal_file' = FALSE
    /\ Gone(FinallyExit)

(***************************************************************************)
(* Actions                                                                 *)
(***************************************************************************)

MainStep_WaitsAnyway(m2) ==
    /\ SetMain([m2 EXCEPT !.mpc = IF @ = "init_failed" THEN "waiting" ELSE @])
    /\ UNCHANGED <<sdVars, tpc>>

(* What main does once the code up to the next suspension has produced m2: *)
(* init.py:263-267 and :283-284 when initialize_services returned False.   *)
MainStep(m2) ==
    IF m2.mpc = "init_failed"
    THEN IF SkipShutdown(shutdown_in_progress)
         THEN /\ SetMain([m2 EXCEPT !.mpc = "finished"])
              /\ invoked' = invoked \cup {MainFail, MainFinally}
              /\ UNCHANGED <<shutdown_in_progress, teardown, writes, signal_file,
                             sweeps, passes, termed, killed, stops, exited, tpc>>
         ELSE /\ SetMain([m2 EXCEPT !.mpc = "grace"])
              /\ TeardownBegin(MainFail)
              /\ UNCHANGED tpc
    ELSE /\ SetMain(m2)
         /\ UNCHANGED <<sdVars, tpc>>

MainFinallyShutdown_Propagates(m) ==
    /\ SetMain([m EXCEPT !.mpc = "finished"])
    /\ UNCHANGED <<sdVars, tpc>>

(* init.py:275-284: an exception that leaves the try block of main is     *)
(* handled by one of the except clauses, which only log, and the finally  *)
(* block awaits shutdown(); when that returns at its guard, main returns. *)
MainFinallyShutdown(m) ==
    IF SkipShutdown(shutdown_in_progress)
    THEN /\ SetMain([m EXCEPT !.mpc = "finished"])
         /\ invoked' = invoked \cup {MainFinally}
         /\ UNCHANGED <<shutdown_in_progress, teardown, writes, signal_file,
                        sweeps, passes, termed, killed, stops, exited, tpc>>
    ELSE /\ SetMain([m EXCEPT !.mpc = "grace"])
         /\ TeardownBegin(MainFinally)
         /\ UNCHANGED tpc

MainProbe ==
    /\ exited = "no" /\ mpc = "probe"
    /\ \E m2 \in {ProbeDone(Main, outcome, holder, err) :
                      outcome \in ProbeOutcomes,
                      holder \in PortHolders(Main, StartupOrder[cur]),
                      err \in BOOLEAN} :
          MainStep(m2)

MainDelay ==
    /\ exited = "no" /\ mpc = "delay"
    /\ MainStep(DelayDone(Main))

MainPoll ==
    /\ exited = "no" /\ mpc = "poll"
    /\ \E m2 \in {PollDone(Main, outcome) : outcome \in ProbeOutcomes} :
          MainStep(m2)

MainPollSleep ==
    /\ exited = "no" /\ mpc = "pollsleep"
    /\ \E m2 \in {PollSleepDone(Main, timedOut) : timedOut \in BOOLEAN} :
          MainStep(m2)

MainSettle ==
    /\ exited = "no" /\ mpc = "settle"
    /\ MainStep(SettleDone(Main))

(* Fault: an exception reaches main, and the frames of                      *)
(* ensure_service_running are unwound.  It comes from the probe loop, where *)
(* only the call of is_running is inside a try (init_functions.py:205-215), *)
(* or from done.wait() (init.py:273).  Inside Startup.start every Exception *)
(* is caught and turned into a False (init_functions.py:93-99).             *)
MainRaises ==
    /\ exited = "no"
    /\ mpc \in {"probe", "delay", "waiting"}
    /\ MainFinallyShutdown([Main EXCEPT !.attempt = 0, !.inv = ZeroInv])

(* main's own shutdown() resumes after asyncio.sleep(2) *)
MainGraceDone ==
    /\ exited = "no" /\ mpc = "grace"
    /\ TeardownResume

signal_handler_LogsOnly ==
    /\ exited = "no"
    /\ \E t \in Tasks :
          /\ tpc[t] = "none"
          /\ \A u \in Tasks : u < t => tpc[u] # "none"
          /\ tpc' = [tpc EXCEPT ![t] = "returned"]
    /\ UNCHANGED <<mainVars, sdVars>>

(* init.py:246-249: SIGINT or SIGTERM; the handler creates a shutdown() task *)
signal_handler ==
    /\ exited = "no"
    /\ \E t \in Tasks :
          /\ tpc[t] = "none"
          /\ \A u \in Tasks : u < t => tpc[u] # "none"
          /\ tpc' = [tpc EXCEPT ![t] = "scheduled"]
    /\ UNCHANGED <<mainVars, sdVars>>

(* A shutdown() task runs from its start to its first suspension (init.py:165-185) *)
TaskStart(t) ==
    /\ exited = "no" /\ tpc[t] = "scheduled"
    /\ \A u \in Tasks : u < t => tpc[u] # "scheduled"   \* the ready queue is FIFO
    /\ IF SkipShutdown(shutdown_in_progress)
       THEN /\ tpc' = [tpc EXCEPT ![t] = "returned"]
            /\ invoked' = invoked \cup {SigTask(t)}
            /\ UNCHANGED <<shutdown_in_progress, teardown, writes, signal_file,
                           sweeps, passes, termed, killed, stops, exited>>
       ELSE /\ tpc' = [tpc EXCEPT ![t] = "grace"]
            /\ TeardownBegin(SigTask(t))
    /\ UNCHANGED mainVars

(* A shutdown() task resumes after asyncio.sleep(2) *)
TaskGraceDone(t) ==
    /\ exited = "no" /\ tpc[t] = "grace"
    /\ TeardownResume

(* init.py:288: main() has returned, so asyncio.run cancels the tasks that are *)
(* left.  A task suspended in shutdown()'s sleep gets CancelledError, which    *)
(* its `except Exception` does not catch; its finally block exits (:236-239).  *)
AsyncioRunCleanup ==
    /\ exited = "no" /\ mpc = "finished"
    /\ Gone(IF \E t \in Tasks : tpc[t] = "grace" THEN FinallyExit ELSE "returned")
    /\ UNCHANGED <<procs, signal_file, sweeps, passes, termed, killed, stops>>

(* Environment: a spawned process ends by itself *)
ProcExit(i) ==
    /\ exited = "no"
    /\ procs[i].alive
    /\ procs' = [procs EXCEPT ![i] = Dead(@)]
    /\ UNCHANGED <<mpc, cur, attempt, inv, last, ret, bot_process, touched, sdVars, tpc>>

(* main() after handle_signals(): initialize_services has issued the first probe *)
(* of the API (init.py:257-263, :29-31)                                          *)
Main0 ==
    Begin([mpc |-> "start", cur |-> 0, attempt |-> 0, inv |-> ZeroInv,
           last |-> <<>>,
           ret |-> [p \in 1..NSteps |-> "none"], procs |-> <<>>,
           bot_process |-> 0, touched |-> {}], 1)

Init ==
    /\ mpc = Main0.mpc
    /\ cur = Main0.cur
    /\ attempt = Main0.attempt
    /\ inv = Main0.inv
    /\ last = Main0.last
    /\ ret = Main0.ret
    /\ procs = Main0.procs
    /\ bot_process = Main0.bot_process
    /\ touched = Main0.touched
    /\ shutdown_in_progress = FALSE
    /\ tpc = [t \in Tasks |-> "none"]
    /\ invoked = {}
    /\ teardown = {}
    /\ writes = 0
    /\ signal_file = FALSE
    /\ sweeps = 0
    /\ passes = <<>>
    /\ termed = {}
    /\ killed = {}
    /\ stops = <<>>
    /\ exited = "no"

Program ==
    \/ MainProbe
    \/ MainDelay
    \/ MainPoll
    \/ MainPollSleep
    \/ MainSettle
    \/ MainGraceDone
    \/ \E t \in Tasks : TaskStart(t)
    \/ \E t \in Tasks : TaskGraceDone(t)
    \/ AsyncioRunCleanup

Next ==
    \/ Program
    \/ signal_handler
    \/ MainRaises
    \/ \E i \in DOMAIN procs : ProcExit(i)

Spec == Init /\ [][Next]_vars

(* The event loop runs every ready task and every timer fires *)
FairSpec == Spec /\ WF_vars(Program)

(***************************************************************************)
(* Properties                                                              *)
(***************************************************************************)

BotProcs == {i \in DOMAIN procs : procs[i].svc = "Bot"}

ToolSteps == {p \in 1..NSteps : StartupOrder[p] \notin {"API", "Bot"}}

Returns == {last[i] : i \in DOMAIN last}

(* C1: however many shutdown() invocations there are and however they       *)
(* interleave, exactly one of them passes the guard and runs the teardown   *)
(* (the signal file is written once); every other one returns at the guard. *)
C1_OneTeardown ==
    /\ Cardinality(teardown) <= 1
    /\ teardown \subseteq invoked
    /\ invoked # {} => Cardinality(teardown) = 1 /\ writes = 1
    /\ invoked = {} => writes = 0 /\ ~shutdown_in_progress

C1_Witness ==
    /\ Cardinality(teardown) = 1
    /\ {SigTask(1), SigTask(2), MainFail, MainFinally} \subseteq invoked

(* C2: no tool and no bot is probed, port-stopped or launched before        *)
(* ensure_service_running has returned success for the API.                 *)
C2_ApiFirst == (touched \ {"API"} # {}) => ret[1] = "ok"

C2_Witness == ret[1] = "ok" /\ {"Bot", "Rembg Tool", "Image Generation Tool"} \subseteq touched

(* C3: once ensure_service_running has returned failure for the API,        *)
(* initialize_services has returned False: nothing but the API was ever     *)
(* touched or spawned, main is not (and never gets) in the blocking wait,   *)
(* and main has invoked shutdown().                                         *)
C3_ApiFailureAborts ==
    ret[1] = "fail" =>
        /\ touched = {"API"}
        /\ \A i \in DOMAIN procs : procs[i].svc = "API"
        /\ \A p \in 2..NSteps : ret[p] = "none"
        /\ mpc \in {"grace", "finished", "gone"}
        /\ MainFail \in invoked

C3_Witness ==
    /\ ret[1] = "fail" /\ mpc = "grace"
    /\ teardown = {MainFail}
    /\ Len(procs) = 1

(* C4: a failure of a non-critical ensure_service_running never aborts the  *)
(* startup: the call for the next service in the order has begun as soon as *)
(* the failure is returned (after the last one main blocks in its wait),    *)
(* and when main is in its wait every service of the order was called.      *)
C4_NonCriticalContinues ==
    /\ \A p \in 2..NSteps :
          ret[p] = "fail" =>
              IF p < NSteps
              THEN cur > p
              ELSE mpc \notin {"probe", "delay", "poll", "pollsleep", "settle"}
    /\ mpc = "waiting" => \A p \in 1..NSteps : ret[p] # "none"

C4_Witness ==
    /\ mpc = "waiting"
    /\ \E p \in ToolSteps : ret[p] = "fail" /\ p < NSteps - 1
    /\ \A p \in 1..NSteps : ret[p] # "none"

(* C5: when the k-th probe of the probe loop is the first to succeed,       *)
(* ensure_service_running returns success after exactly k probes and k-1    *)
(* delays, having launched nothing and stopped no port holder.              *)
C5_ProbeSuccess ==
    \A r \in Returns :
        r.via = "probe" =>
            /\ r.res
            /\ r.failed < max_attempts
            /\ r.probes = r.failed + 1
            /\ r.delays = r.failed
            /\ ~r.launched /\ ~r.portStopped
            /\ \A i \in DOMAIN procs : procs[i].svc # StartupOrder[r.pos]

C5_Witness ==
    \E r \in Returns :
        /\ r.via = "probe" /\ StartupOrder[r.pos] = "Rembg Tool"
        /\ r.failed = 2 /\ r.probes = 3 /\ r.delays = 2

(* C6: at most one bot process spawned by the supervisor is alive, and it   *)
(* is the tracked one; ensure_service_running for the bot returns success   *)
(* without spawning when the tracked bot process is alive.                  *)
C6_OneBot ==
    /\ \A i \in BotProcs : procs[i].alive => i = bot_process
    /\ Cardinality({i \in BotProcs : procs[i].alive}) <= 1
    /\ \A r \in Returns : r.via = "bot_running" => r.res /\ ~r.launched

C6_Witness ==
    /\ Cardinality(BotProcs) = 2
    /\ Cardinality({i \in BotProcs : procs[i].alive}) = 1
    /\ ret[NSteps] = "ok"

(* C7: the bot process is launched only after ensure_service_running has    *)
(* returned for every tool service (Rembg Tool and Image Generation Tool).  *)
C7_BotAfterTools == BotProcs # {} => \A p \in ToolSteps : ret[p] # "none"

(* The processes whose command line references the root path: a spawned     *)
(* process is `bash DOMESTIC_AI_PATH/...` (init_functions.py:58, :74, :165) *)
ReferencingRoot(P) == Alive(P)

(* C8: when the supervisor has exited through shutdown(), the tracked bot   *)
(* process reference is cleared and no process referencing the root path    *)
(* is left.                                                                 *)
C8_NothingLeft ==
    exited = "os._exit(0)" => bot_process = 0 /\ ReferencingRoot(procs) = {}

(* C9: when the supervisor has exited, every process it spawned is dead or  *)
(* was reported by the verification pass as still running.                  *)
C9_NoSilentLeak ==
    exited # "no" => \A i \in DOMAIN procs : ~procs[i].alive \/ i \in running

(* C10: a termination request, whenever it arrives, leads to the supervisor *)
(* exiting with the teardown having been started exactly once.              *)
C10_RequestLeadsToExit ==
    (\E t \in Tasks : tpc[t] # "none") ~> (exited # "no" /\ Cardinality(teardown) = 1)

C10_Witness ==
    /\ exited = "os._exit(0)"
    /\ teardown = {SigTask(1)}
    /\ \A p \in 1..NSteps : ret[p] # "none"

(* C11: in a shutdown the signal file is written before any process is     *)
(* sent a graceful termination signal, and every process that shutdown()    *)
(* force-kills was sent its graceful termination signal before.             *)
C11_SignalFileTermKill ==
    /\ termed # {} => writes >= 1
    /\ killed \subseteq termed

(* C12: the shutdown() invocation that passes the guard always ends with    *)
(* the supervisor's process exiting, whatever happens inside it.            *)
C12_ShutdownAlwaysExits == (teardown # {}) ~> (exited = "os._exit(0)")

C12_Witness ==
    /\ exited = "os._exit(0)"
    /\ teardown = {MainFail}
    /\ Alive(procs) # {} /\ killed = {}

(* C13: when an exception reaches main, from initialize_services or from    *)
(* the blocking wait, main invokes shutdown(), and with the invocations of  *)
(* the signals there is exactly one teardown (one write of the signal file).*)
C13_FaultInvokesShutdown ==
    [][MainRaises => /\ MainFinally \in invoked'
                     /\ Cardinality(teardown') = 1
                     /\ writes' = 1]_vars

C13_Witness ==
    /\ MainFinally \in invoked /\ MainFail \notin invoked
    /\ teardown = {SigTask(1)}
    /\ SigTask(2) \in invoked

(* C14: is_running gives True exactly for status 200 and False for another  *)
(* status, a connection error and a timeout; whatever the outcome of a      *)
(* probe of the probe loop, ensure_service_running does not fail with it:   *)
(* a failed probe counts one attempt and is followed by the delay before    *)
(* the next probe (after the last attempt, by the launch).                  *)
C14_ProbeNeverRaises ==
    /\ is_running("200") /\ ~is_running_raises("200")
    /\ \A o \in {"other_status", "client_error", "timeout"} :
          ~is_running(o) /\ ~is_running_raises(o)
    /\ mpc = "probe" =>
          \A o \in ProbeOutcomes, h \in PortHolders(Main, StartupOrder[cur]),
             e \in BOOLEAN :
              LET m2 == ProbeDone(Main, o, h, e)
                  rs == {m2.last[i] : i \in DOMAIN m2.last}
              IN /\ (o = "200") <=> (\E r \in rs : r.pos = cur /\ r.via = "probe" /\ r.res)
                 /\ \A r \in rs : r.pos = cur => r.via = "probe" /\ r.res
                 /\ o # "200" =>
                       /\ m2.cur = cur /\ m2.ret[cur] = "none"
                       /\ m2.inv.probes = inv.probes + 1
                       /\ m2.inv.failed = inv.failed + 1
                       /\ IF attempt < max_attempts - 1
                          THEN m2.mpc = "delay" /\ ~m2.inv.launched
                          ELSE m2.mpc = "poll" /\ m2.inv.launched

C14_Witness ==
    /\ mpc = "delay" /\ StartupOrder[cur] = "Image Generation Tool"
    /\ inv.probes = 2 /\ inv.failed = 2 /\ attempt = 1

(* C15: in a shutdown every process the supervisor spawned that is not      *)
(* gone by itself is sent a graceful termination signal, and none is        *)
(* force-killed without having been sent one.                               *)
C15_GracefulForEverySpawned ==
    exited # "no" =>
        \A i \in DOMAIN procs : (procs[i].alive \/ i \in killed) => i \in termed

(* C16: when the supervisor has exited, the signal file does not exist.     *)
C16_SignalFileGone == exited # "no" => ~signal_file

(* C17: in one shutdown the kill sweep runs once, and a second and last     *)
(* time exactly when the first verification pass finds survivors.           *)
C17_SweepOnceOrTwice ==
    (exited # "no" /\ teardown # {}) =>
        /\ sweeps \in {1, 2}
        /\ Len(passes) = sweeps
        /\ sweeps = 2 <=> passes[1] # {}

(* The supervisor's tracking state: init_functions.bot_process is the only  *)
(* place where a Popen object is kept (init_functions.py:19, :58)           *)
Tracked == {bot_process} \ {0}

(* C18: every live process the supervisor spawned is in the tracked set.    *)
C18_SpawnedIsTracked == Alive(procs) \subseteq Tracked

(* The returns of ensure_service_running that come from the launcher *)
LaunchReturns == {r \in Returns : r.via \in {"poll", "timeout", "exception"}}

(* C19: when every probe of an HTTP service fails, ensure_service_running   *)
(* has made max_attempts probes and max_attempts - 1 delays, stops the      *)
(* holder of the port (if there is one) before it launches, launches even   *)
(* when stopping the holder failed, and returns what the launcher returns.  *)
C19_AllProbesFail ==
    /\ \A r \in LaunchReturns :
          /\ r.probes = max_attempts /\ r.failed = max_attempts
          /\ r.delays = max_attempts - 1
          /\ r.launched
          /\ r.order = IF r.holder # NoHolder THEN <<"port_stop", "launch">>
                                              ELSE <<"launch">>
          /\ r.res <=> r.via = "poll"
    /\ mpc \in {"poll", "pollsleep"} =>
          /\ inv.probes = max_attempts /\ inv.delays = max_attempts - 1
          /\ inv.launched
          /\ \E i \in DOMAIN procs : procs[i].svc = StartupOrder[cur]

C19_Witness ==
    \E r \in LaunchReturns :
        /\ r.via = "timeout" /\ ~r.res
        /\ r.holder = Foreign /\ r.stopError
        /\ StartupOrder[r.pos] = "Rembg Tool"

Launched == {i \in DOMAIN procs : procs[i].svc = StartupOrder[cur]}

(* C21: a poll of the launcher at which the launched process has exited and *)
(* the probe does not succeed ends the launch (with failure): the launcher  *)
(* does not go on to sleep and poll again.                                  *)
C21_DeadProcessEndsPolling ==
    [][(MainPoll /\ Launched \cap Alive(procs) = {}) => mpc' # "pollsleep"]_vars

(* C22: the launch of the bot returns success exactly when the spawned bot  *)
(* process is alive at the end of the settle delay, and no probe is made    *)
(* for the bot.                                                             *)
C22_BotSettle ==
    mpc = "settle" =>
        LET m2 == SettleDone(Main)
            r == m2.last[1]
        IN /\ StartupOrder[cur] = "Bot" /\ procs[bot_process].svc = "Bot"
           /\ r.pos = cur /\ r.via = "settle"
           /\ r.res <=> procs[bot_process].alive
           /\ m2.ret[cur] = IF procs[bot_process].alive THEN "ok" ELSE "fail"
           /\ r.probes = 0 /\ r.launched

C22_Witness ==
    /\ \E r \in Returns : r.via = "settle" /\ ~r.res /\ r.probes = 0
    /\ bot_process # 0 /\ ~procs[bot_process].alive

(* C23: a process is spawned only after its command path has been checked  *)
(* to exist and to be executable (so a launch with a missing or            *)
(* non-executable path spawns nothing).                                    *)
C23_PathCheckedBeforeSpawn ==
    \A i \in DOMAIN procs : {"exists", "executable"} \subseteq procs[i].checks

(* C24: when start_bot's launch of the bot fails, after the API and the     *)
(* tools were started, initialize_services returns True and main enters its *)
(* blocking wait; the step stops or kills no process and starts no          *)
(* shutdown.                                                                *)
C24_BotFailureNoRollback ==
    [][(MainSettle /\ cur = NSteps /\ ~procs[bot_process].alive) =>
           /\ mpc' = "waiting" /\ ret'[NSteps] = "fail"
           /\ procs' = procs
           /\ UNCHANGED <<sdVars, tpc>>]_vars

C24_Witness ==
    /\ mpc = "waiting" /\ ret[NSteps] = "fail"
    /\ Len(procs) = NSteps
    /\ {procs[i].svc : i \in Alive(procs)} = {"API", "Rembg Tool", "Image Generation Tool"}
    /\ ~shutdown_in_progress /\ killed = {} /\ termed = {}

(* C25: once shutdown_in_progress is set, no further process is spawned.   *)
C25_NoSpawnAfterShutdownBegun ==
    [][shutdown_in_progress => Len(procs') = Len(procs)]_vars

(* C26: stop_all_services calls stop_service for every entry of services,  *)
(* in list order, each call gives a boolean, and none raises.              *)
C26_StopsEveryService ==
    stops # <<>> =>
        /\ [i \in DOMAIN stops |-> stops[i].svc] = services
        /\ \A i \in DOMAIN stops : stops[i].res \in {"True", "False"}

(* C27: when the supervisor has exited after a teardown had begun, that    *)
(* teardown has run its stop step, its kill sweep and its verification.    *)
C27_TeardownNotAbandoned ==
    (exited # "no" /\ teardown # {}) =>
        /\ stops # <<>>
        /\ sweeps >= 1
        /\ passes # <<>>

(* C28: whenever the supervisor has terminated with a shutdown() begun, it *)
(* has done so through os._exit(0): after a signal, after a failed         *)
(* initialization and after an exception in the teardown alike.            *)
C28_ExitCodeZero ==
    (exited # "no" /\ invoked # {}) => exited = "os._exit(0)"

C28_Witness ==
    /\ exited = "os._exit(0)"
    /\ teardown = {MainFail} /\ ret[1] = "fail"
    /\ stops # <<>> /\ stops[Len(stops)].res = "UnboundLocalError"

=============================================================================
